---- MODULE Spec2Model ----
(***************************************************************************)
(* Guild-scoped session and broadcast engine of python_server.py.          *)
(*                                                                         *)
(* One handler coroutine (server_handler) runs per connection on a single  *)
(* asyncio event loop.  A handler runs without interruption between two    *)
(* awaits, so every action below is one such uninterrupted segment.  The   *)
(* suspension points are websocket.recv / the async-for, websocket.send    *)
(* and the asyncio.gather of broadcast_to_guild.                           *)
(*                                                                         *)
(* websocket.send writes its frame when it is called and fails when the    *)
(* connection is closed.  The sends of a gather are tasks created in one   *)
(* go, so they run back to back (GatherSend) once the event loop gets to   *)
(* them, and the caller resumes when all have finished (GatherReturn).     *)
(***************************************************************************)
EXTENDS Integers, Sequences, FiniteSets, TLC

\* ---------------------------------------------------------------- bounds
\* Inbound envelopes the server processes after the auth step, in total.
MaxMsgs == 2
\* Connections that are closed before the peer closes another one.
MaxClosed == 1

\* Connection handles (the websocket objects), named in the order in which
\* their handlers get past the first recv().
ConnOrder == <<"w1", "w2", "w3">>
Conns == {ConnOrder[i] : i \in 1..Len(ConnOrder)}
\* Display names a client may claim.
DisplayNames == {"alice", "bob"}
\* Python's None, the username of an auth envelope that carries none.
None == "None"
\* Values of the first six characters of a uuid4 (not unique by construction).
InviteCodes == {"ABC123", "DEF456"}

\* user_data['guild'] of a session that switched to no guild yet (None).
NoGuild == 0

VARIABLES
    CONNECTED_USERS,   \* websocket -> [username, guild]; DOMAIN = registered
    GUILDS,            \* guild_id -> descriptor, in insertion order
    MESSAGE_HISTORY,   \* guild_id -> sequence of stored text envelopes
    VOICE_STATE,       \* guild_id -> set of names (the dict's keys)
    SCREEN_STATE,      \* guild_id -> set of names (the dict's keys)
    pc,                \* websocket -> position of its server_handler
    transport,         \* websocket -> "open" | "closed"
    outbox,            \* websocket -> frames written to it, in order
    gather,            \* websocket -> the broadcast its handler awaits
    cleanups,          \* websocket -> calls of unregister_user so far
    voiced,            \* websocket -> guild of its voice_join not yet followed
                       \*              by a voice_leave of its own (bookkeeping)
    nmsg,              \* inbound envelopes processed so far
    ignored            \* websocket -> envelopes its loop dropped (bookkeeping)

vars == <<CONNECTED_USERS, GUILDS, MESSAGE_HISTORY, VOICE_STATE, SCREEN_STATE,
          pc, transport, outbox, gather, cleanups, voiced, nmsg, ignored>>

shared == <<CONNECTED_USERS, GUILDS, MESSAGE_HISTORY, VOICE_STATE, SCREEN_STATE>>

\* ------------------------------------------------------------- helpers
GuildIds == 1..Len(GUILDS)

Registered == DOMAIN CONNECTED_USERS

Range(s) == {s[i] : i \in 1..Len(s)}

\* An envelope.  Every envelope of the model has the same fields, empty where
\* its type has none: id (a guild id, or the number that tells relayed
\* payloads apart), sender, message, guilds, users and messages.  origin is
\* the connection whose handler produced it and relayed tells an envelope a
\* client sent (data) from one the server built; both are bookkeeping.
Envelope(t, from, relayed) ==
    [type |-> t, origin |-> from, relayed |-> relayed, id |-> 0, sender |-> "",
     message |-> "", guilds |-> {}, users |-> {}, messages |-> <<>>]

WithId(e, id) == [e EXCEPT !.id = id]
WithSender(e, username) == [e EXCEPT !.sender = username]

NoGather == [guild |-> NoGuild, message |-> Envelope("none", "none", FALSE),
             users_to_send |-> {}, pending |-> {}, failed |-> {}]

\* ------------------------------------------------- create_guild, join_guild
\* NewGuild whose members start empty.
NewGuild_NoOwner(guild_id, owner, invite_code) ==
    [id |-> guild_id, owner |-> owner, invite_code |-> invite_code,
     members |-> <<>>]

\* The descriptor create_guild stores for a guild owned by owner.
NewGuild(guild_id, owner, invite_code) ==
    [id |-> guild_id, owner |-> owner, invite_code |-> invite_code,
     members |-> <<owner>>]

\* FirstMatch that falls back on the first guild when no code matches.
FirstMatch_Fallback(invite_code) ==
    IF {g \in 1..Len(GUILDS) : GUILDS[g].invite_code = invite_code} # {}
    THEN CHOOSE g \in 1..Len(GUILDS) :
            /\ GUILDS[g].invite_code = invite_code
            /\ \A h \in 1..g : GUILDS[h].invite_code = invite_code => h = g
    ELSE IF Len(GUILDS) > 0 THEN 1 ELSE 0

\* The guilds join_guild's loop matches, and the one it returns (first in
\* insertion order), 0 when it returns None.
Matching(invite_code) ==
    {g \in GuildIds : GUILDS[g].invite_code = invite_code}

FirstMatch(invite_code) ==
    IF Matching(invite_code) = {} THEN 0
    ELSE CHOOSE g \in Matching(invite_code) :
            \A h \in Matching(invite_code) : g <= h

\* JoinedMembers without the "not in" test of line 40.
JoinedMembers_Always(members, username) == Append(members, username)

\* guild['members'] after join_guild found guild g for username.
JoinedMembers(members, username) ==
    IF username \in Range(members) THEN members
    ELSE Append(members, username)

\* ------------------------------------------------------ broadcast_to_guild
\* UsersToSend without the "ws != sender_websocket" test of line 83.
UsersToSend_NoExclude(guild_id, sender_websocket) ==
    {ws \in DOMAIN CONNECTED_USERS : CONNECTED_USERS[ws].guild = guild_id}

\* users_to_send: the registered sessions of the guild, bar the sender.
UsersToSend(guild_id, sender_websocket) ==
    {ws \in Registered :
        CONNECTED_USERS[ws].guild = guild_id /\ ws # sender_websocket}

\* The gather a broadcast starts; nothing is awaited for no recipient.
StartGather(guild_id, message, sender_websocket) ==
    LET to == UsersToSend(guild_id, sender_websocket)
    IN  [guild |-> guild_id, message |-> message, users_to_send |-> to,
         pending |-> to, failed |-> {}]

\* websocket.send on ws: the frame is written iff the connection is open.
Written(ws, message) ==
    IF transport[ws] = "open"
    THEN [outbox EXCEPT ![ws] = Append(@, message)]
    ELSE outbox

\* The server right after start: nothing stored, nobody has spoken yet.
InitFresh ==
    /\ CONNECTED_USERS = <<>>
    /\ GUILDS = <<>>
    /\ MESSAGE_HISTORY = <<>>
    /\ VOICE_STATE = <<>>
    /\ SCREEN_STATE = <<>>
    /\ pc = [ws \in Conns |-> "connecting"]

\* The server some time later: alice created guild 1 and bob guild 2, each
\* joined the other's guild, and their sessions w1 and w2 have switched to
\* guild 1.  Nobody has sent a text or a presence envelope yet, and a third
\* connection is about to speak.
InitPopulated ==
    /\ GUILDS = << [id |-> 1, owner |-> "alice", invite_code |-> "ABC123",
                    members |-> <<"alice", "bob">>],
                   [id |-> 2, owner |-> "bob", invite_code |-> "DEF456",
                    members |-> <<"bob", "alice">>] >>
    /\ MESSAGE_HISTORY = << <<>>, <<>> >>
    /\ VOICE_STATE = << {}, {} >>
    /\ SCREEN_STATE = << {}, {} >>
    /\ CONNECTED_USERS = ("w1" :> [username |-> "alice", guild |-> 1])
                      @@ ("w2" :> [username |-> "bob", guild |-> 1])
    /\ pc = [ws \in Conns |-> IF ws \in {"w1", "w2"} THEN "loop" ELSE "connecting"]

\* outbox holds the frames written from the initial state on.
Init ==
    /\ InitFresh \/ InitPopulated
    /\ transport = [ws \in Conns |-> "open"]
    /\ outbox = [ws \in Conns |-> <<>>]
    /\ gather = [ws \in Conns |-> NoGather]
    /\ cleanups = [ws \in Conns |-> 0]
    /\ voiced = [ws \in Conns |-> NoGuild]
    /\ nmsg = 0
    /\ ignored = [ws \in Conns |-> 0]

\* ------------------------------------------------------------ environment
\* The peer or the network closes the connection.
TransportClose(ws) ==
    /\ pc[ws] # "done"
    /\ transport[ws] = "open"
    /\ Cardinality({w \in Conns : transport[w] = "closed"}) < MaxClosed
    /\ transport' = [transport EXCEPT ![ws] = "closed"]
    /\ UNCHANGED <<shared, pc, outbox, gather, cleanups, voiced, nmsg, ignored>>

\* The handler is done: websockets closes the connection behind it.
Finish(ws) ==
    /\ pc' = [pc EXCEPT ![ws] = "done"]
    /\ transport' = [transport EXCEPT ![ws] = "closed"]

\* ------------------------------------------------------------- auth step
\* What the first recv() can yield when a message arrives:
\* a payload json.loads rejects, or an object with or without
\* 'type' = 'auth' and with or without 'username'.
FirstMessages ==
    {[json |-> j, type |-> t, username |-> u] :
        j \in BOOLEAN, t \in {"auth", "text"}, u \in DisplayNames \cup {None}}

\* Line 105: the only test the auth step makes.
IsAuth(auth_data) == auth_data.type = "auth"

\* The guild_list envelope of lines 113-121.
GuildList(ws, username) ==
    [Envelope("guild_list", ws, FALSE) EXCEPT
        !.guilds = {g \in GuildIds : username \in Range(GUILDS[g].members)}]

\* The handler of ws is the next to get past its first recv().
IsNextToSpeak(ws) ==
    /\ pc[ws] = "connecting"
    /\ \A i, j \in 1..Len(ConnOrder) :
          i < j /\ ConnOrder[j] = ws => pc[ConnOrder[i]] # "connecting"

\* recv() raises: the connection closed before any message (lines 102, 220-227).
ClosedBeforeAuth(ws) ==
    /\ IsNextToSpeak(ws)
    /\ transport[ws] = "closed"
    /\ Finish(ws)
    /\ cleanups' = [cleanups EXCEPT ![ws] = @ + 1]
    /\ UNCHANGED <<shared, outbox, gather, voiced, nmsg, ignored>>

\* A first message that is not JSON (lines 103, 224-227) or has another type
\* (lines 105-107): the handler ends through finally, unregister_user finds
\* no session.
RejectFirst(ws, first) ==
    /\ IsNextToSpeak(ws)
    /\ ~first.json \/ ~IsAuth(first)
    /\ Finish(ws)
    /\ cleanups' = [cleanups EXCEPT ![ws] = @ + 1]
    /\ UNCHANGED <<shared, outbox, gather, voiced, nmsg, ignored>>

\* Lines 109-121: register, then push the guild list.  The send raises on a
\* closed connection and the handler ends through finally, where
\* unregister_user deletes the session it has just registered.
Auth(ws, first) ==
    /\ IsNextToSpeak(ws)
    /\ first.json /\ IsAuth(first)
    /\ outbox' = Written(ws, GuildList(ws, first.username))
    /\ IF transport[ws] = "open"
       THEN /\ CONNECTED_USERS' =
                 CONNECTED_USERS @@ (ws :> [username |-> first.username,
                                            guild |-> NoGuild])
            /\ pc' = [pc EXCEPT ![ws] = "loop"]
            /\ UNCHANGED <<transport, cleanups>>
       ELSE /\ Finish(ws)
            /\ cleanups' = [cleanups EXCEPT ![ws] = @ + 1]
            /\ UNCHANGED CONNECTED_USERS
    /\ UNCHANGED <<GUILDS, MESSAGE_HISTORY, VOICE_STATE, SCREEN_STATE, gather,
                   voiced, nmsg, ignored>>

\* --------------------------------------------------------- dispatch loop
\* The handler's local username and the guild its session is in.
Username(ws) == CONNECTED_USERS[ws].username
GuildOf(ws) == CONNECTED_USERS[ws].guild

\* NextMessage that takes the next envelope while a broadcast is awaited.
NextMessage_NoWait(ws) ==
    /\ pc[ws] \in {"loop", "gather"}
    /\ nmsg < MaxMsgs
    /\ nmsg' = nmsg + 1

\* The async-for hands the handler its next inbound envelope (line 123).
\* Envelopes the peer sent before the connection closed are still handed over.
NextMessage(ws) ==
    /\ pc[ws] = "loop"
    /\ nmsg < MaxMsgs
    /\ nmsg' = nmsg + 1

\* await broadcast_to_guild(guild_id, message, websocket) from the loop: the
\* handler waits for the gather, or goes on at once when there is no recipient.
Broadcast(ws, guild_id, message) ==
    LET g == StartGather(guild_id, message, ws)
    IN  /\ gather' = [gather EXCEPT ![ws] = g]
        /\ pc' = [pc EXCEPT ![ws] =
                    IF g.users_to_send = {} THEN "loop" ELSE "gather"]

\* A voice or screen envelope as the client sent it (data), which the model
\* takes to name its sender as the synthetic ones do.
Relayed(ws, msg_type) == WithSender(Envelope(msg_type, ws, TRUE), Username(ws))

\* The envelope of lines 143-146.
InvalidInviteCode(ws) ==
    [Envelope("error", ws, FALSE) EXCEPT !.message = "Invalid invite code"]

\* Lines 128-133.
CreateGuild(ws, invite_code) ==
    /\ NextMessage(ws)
    /\ LET guild_id == Len(GUILDS) + 1
       IN  /\ GUILDS' = Append(GUILDS, NewGuild(guild_id, Username(ws), invite_code))
           /\ MESSAGE_HISTORY' = Append(MESSAGE_HISTORY, <<>>)
           /\ VOICE_STATE' = Append(VOICE_STATE, {})
           /\ SCREEN_STATE' = Append(SCREEN_STATE, {})
           /\ outbox' = Written(ws, WithId(Envelope("guild_created", ws, FALSE), guild_id))
    /\ UNCHANGED <<CONNECTED_USERS, pc, transport, gather, cleanups, voiced, ignored>>

\* Lines 135-146.
JoinGuild(ws, invite_code) ==
    /\ NextMessage(ws)
    /\ LET guild == FirstMatch(invite_code)
       IN  IF guild # 0
           THEN /\ GUILDS' = [GUILDS EXCEPT ![guild].members =
                                 JoinedMembers(@, Username(ws))]
                /\ outbox' = Written(ws, WithId(Envelope("guild_joined", ws, FALSE), guild))
           ELSE /\ outbox' = Written(ws, InvalidInviteCode(ws))
                /\ UNCHANGED GUILDS
    /\ UNCHANGED <<CONNECTED_USERS, MESSAGE_HISTORY, VOICE_STATE, SCREEN_STATE,
                   pc, transport, gather, cleanups, voiced, ignored>>

\* MaySwitch without the membership test of line 150.
MaySwitch_NoMemberTest(ws, guild_id) == guild_id \in 1..Len(GUILDS)

\* Line 150: the test a switch_guild must pass.
MaySwitch(ws, guild_id) ==
    /\ guild_id \in GuildIds
    /\ Username(ws) \in Range(GUILDS[guild_id].members)

\* AfterSend that goes from the history straight to the screen state.
AfterSend_SkipVoice(ws, next) ==
    IF transport[ws] = "open" THEN "switch_screen" ELSE "loop"

\* After a send of the switch_guild branch: the next send of the branch, or
\* back to the loop when the send raised (line 217).
AfterSend(ws, next) == IF transport[ws] = "open" THEN next ELSE "loop"

\* Lines 148-158: set the guild and push the history.
SwitchGuild(ws, guild_id) ==
    /\ NextMessage(ws)
    /\ IF MaySwitch(ws, guild_id)
       THEN /\ CONNECTED_USERS' = [CONNECTED_USERS EXCEPT ![ws].guild = guild_id]
            /\ outbox' = Written(ws, [Envelope("message_history", ws, FALSE) EXCEPT
                                         !.messages = MESSAGE_HISTORY[guild_id]])
            /\ pc' = [pc EXCEPT ![ws] = AfterSend(ws, "switch_voice")]
       ELSE UNCHANGED <<CONNECTED_USERS, outbox, pc>>
    /\ UNCHANGED <<GUILDS, MESSAGE_HISTORY, VOICE_STATE, SCREEN_STATE,
                   transport, gather, cleanups, voiced, ignored>>

\* Lines 160-165, once the history send has returned.
SwitchVoice(ws) ==
    /\ pc[ws] = "switch_voice"
    /\ outbox' = Written(ws, [Envelope("voice_state", ws, FALSE) EXCEPT
                                 !.users = VOICE_STATE[GuildOf(ws)]])
    /\ pc' = [pc EXCEPT ![ws] = AfterSend(ws, "switch_screen")]
    /\ UNCHANGED <<shared, transport, gather, cleanups, voiced, nmsg, ignored>>

\* Lines 167-172, once the voice_state send has returned.
SwitchScreen(ws) ==
    /\ pc[ws] = "switch_screen"
    /\ outbox' = Written(ws, [Envelope("screen_state", ws, FALSE) EXCEPT
                                 !.users = SCREEN_STATE[GuildOf(ws)]])
    /\ pc' = [pc EXCEPT ![ws] = "loop"]
    /\ UNCHANGED <<shared, transport, gather, cleanups, voiced, nmsg, ignored>>

\* Lines 174-179.  The stored envelope and the broadcast one are one object;
\* its body is the number of the inbound envelope, which tells texts apart.
Text(ws) ==
    /\ NextMessage(ws)
    /\ IF GuildOf(ws) # NoGuild
       THEN LET data == WithId(Envelope("text", ws, TRUE), nmsg + 1)
            IN  /\ MESSAGE_HISTORY' =
                      [MESSAGE_HISTORY EXCEPT ![GuildOf(ws)] = Append(@, data)]
                /\ Broadcast(ws, GuildOf(ws), data)
       ELSE UNCHANGED <<MESSAGE_HISTORY, gather, pc>>
    /\ UNCHANGED <<CONNECTED_USERS, GUILDS, VOICE_STATE, SCREEN_STATE,
                   transport, outbox, cleanups, voiced, ignored>>

\* VoiceJoin that stores a set of its own in place of the guild's.
VoiceJoin_Overwrite(ws) ==
    /\ pc[ws] = "loop" /\ nmsg < MaxMsgs /\ nmsg' = nmsg + 1
    /\ IF GuildOf(ws) # NoGuild
       THEN /\ VOICE_STATE' = [VOICE_STATE EXCEPT ![GuildOf(ws)] = {Username(ws)}]
            /\ Broadcast(ws, GuildOf(ws), Relayed(ws, "voice_join"))
            /\ voiced' = [voiced EXCEPT ![ws] = GuildOf(ws)]
       ELSE UNCHANGED <<VOICE_STATE, gather, pc, voiced>>
    /\ UNCHANGED <<CONNECTED_USERS, GUILDS, MESSAGE_HISTORY, SCREEN_STATE,
                   transport, outbox, cleanups, ignored>>

\* Lines 181-185.
VoiceJoin(ws) ==
    /\ NextMessage(ws)
    /\ IF GuildOf(ws) # NoGuild
       THEN /\ VOICE_STATE' =
                 [VOICE_STATE EXCEPT ![GuildOf(ws)] = @ \cup {Username(ws)}]
            /\ Broadcast(ws, GuildOf(ws), Relayed(ws, "voice_join"))
            /\ voiced' = [voiced EXCEPT ![ws] = GuildOf(ws)]
       ELSE UNCHANGED <<VOICE_STATE, gather, pc, voiced>>
    /\ UNCHANGED <<CONNECTED_USERS, GUILDS, MESSAGE_HISTORY, SCREEN_STATE,
                   transport, outbox, cleanups, ignored>>

\* Lines 187-191.
VoiceLeave(ws) ==
    /\ NextMessage(ws)
    /\ IF GuildOf(ws) # NoGuild /\ Username(ws) \in VOICE_STATE[GuildOf(ws)]
       THEN /\ VOICE_STATE' =
                 [VOICE_STATE EXCEPT ![GuildOf(ws)] = @ \ {Username(ws)}]
            /\ Broadcast(ws, GuildOf(ws), Relayed(ws, "voice_leave"))
       ELSE UNCHANGED <<VOICE_STATE, gather, pc>>
    /\ voiced' = [voiced EXCEPT ![ws] = NoGuild]
    /\ UNCHANGED <<CONNECTED_USERS, GUILDS, MESSAGE_HISTORY, SCREEN_STATE,
                   transport, outbox, cleanups, ignored>>

\* Lines 198-202.
ScreenStart(ws) ==
    /\ NextMessage(ws)
    /\ IF GuildOf(ws) # NoGuild
       THEN /\ SCREEN_STATE' =
                 [SCREEN_STATE EXCEPT ![GuildOf(ws)] = @ \cup {Username(ws)}]
            /\ Broadcast(ws, GuildOf(ws), Relayed(ws, "screen_start"))
       ELSE UNCHANGED <<SCREEN_STATE, gather, pc>>
    /\ UNCHANGED <<CONNECTED_USERS, GUILDS, MESSAGE_HISTORY, VOICE_STATE,
                   transport, outbox, cleanups, voiced, ignored>>

\* Lines 204-208.
ScreenStop(ws) ==
    /\ NextMessage(ws)
    /\ IF GuildOf(ws) # NoGuild /\ Username(ws) \in SCREEN_STATE[GuildOf(ws)]
       THEN /\ SCREEN_STATE' =
                 [SCREEN_STATE EXCEPT ![GuildOf(ws)] = @ \ {Username(ws)}]
            /\ Broadcast(ws, GuildOf(ws), Relayed(ws, "screen_stop"))
       ELSE UNCHANGED <<SCREEN_STATE, gather, pc>>
    /\ UNCHANGED <<CONNECTED_USERS, GUILDS, MESSAGE_HISTORY, VOICE_STATE,
                   transport, outbox, cleanups, voiced, ignored>>

\* Lines 193-196 (voice_data) and 210-213 (screen_frame): relayed, not stored.
Relay(ws, msg_type) ==
    /\ NextMessage(ws)
    /\ IF GuildOf(ws) # NoGuild
       THEN Broadcast(ws, GuildOf(ws), WithId(Envelope(msg_type, ws, TRUE), nmsg + 1))
       ELSE UNCHANGED <<gather, pc>>
    /\ UNCHANGED <<shared, transport, outbox, cleanups, voiced, ignored>>

\* Inbound payloads no branch of the loop acts on: text json.loads rejects
\* (json FALSE), a type the if/elif chain does not know, and a create_guild,
\* join_guild or switch_guild without the key its branch reads (field FALSE).
Inbound ==
    {[json |-> j, type |-> t, field |-> f] :
        j \in BOOLEAN, f \in BOOLEAN,
        t \in {"create_guild", "join_guild", "switch_guild", "ping"}}

\* Line 125 raises JSONDecodeError, or data['name'], data['invite_code'] or
\* data['guild_id'] raises KeyError before anything is called (lines 129,
\* 136, 149).
Raises(data) ==
    \/ ~data.json
    \/ data.type \in {"create_guild", "join_guild", "switch_guild"} /\ ~data.field

\* No branch of lines 128-213 matches msg_type.
NoBranch(data) ==
    data.type \notin {"create_guild", "join_guild", "switch_guild", "text",
                      "voice_join", "voice_leave", "voice_data",
                      "screen_start", "screen_stop", "screen_frame"}

\* Ignored that lets the exception end the handler's connection.
Ignored_Raise(ws, data) ==
    /\ pc[ws] = "loop" /\ nmsg < MaxMsgs /\ nmsg' = nmsg + 1
    /\ Raises(data) \/ NoBranch(data)
    /\ ignored' = [ignored EXCEPT ![ws] = @ + 1]
    /\ transport' = [transport EXCEPT ![ws] = "closed"]
    /\ UNCHANGED <<shared, pc, outbox, gather, cleanups, voiced>>

\* Lines 125-126 and 215-218: the per-message except catches what the
\* payload raised, or no branch matched; the loop goes on to the next one.
Ignored(ws, data) ==
    /\ NextMessage(ws)
    /\ Raises(data) \/ NoBranch(data)
    /\ ignored' = [ignored EXCEPT ![ws] = @ + 1]
    /\ UNCHANGED <<shared, pc, transport, outbox, gather, cleanups, voiced>>

\* ------------------------------------------------------ the gather's tasks
\* Reached when the first exception ends the whole gather.
Reached_AllOrNothing(users_to_send) ==
    IF \A user \in users_to_send : transport[user] = "open"
    THEN users_to_send ELSE {}

\* The recipients a gather's sends reach: user.send writes its frame on an
\* open connection and raises on a closed one; return_exceptions=True keeps
\* every other send going (lines 87-90).
Reached(users_to_send) == {user \in users_to_send : transport[user] = "open"}

\* The tasks of a gather run back to back on the event loop, each writing
\* its frame when it starts; the exceptions end up in results (line 93).
GatherSend(ws) ==
    /\ gather[ws].pending # {}
    /\ LET to == Reached(gather[ws].users_to_send)
       IN  /\ outbox' = [user \in Conns |->
                           IF user \in to THEN Append(outbox[user], gather[ws].message)
                           ELSE outbox[user]]
           /\ gather' = [gather EXCEPT
                           ![ws].pending = {},
                           ![ws].failed = gather[ws].users_to_send \ to]
    /\ UNCHANGED <<shared, pc, transport, cleanups, voiced, nmsg, ignored>>

\* Send that runs only when the sends to the connections before user have
\* finished: the sends of a loop that awaits them one by one.
Send_InTurn(ws, user) ==
    /\ user \in gather[ws].pending
    /\ \A i, j \in 1..Len(ConnOrder) :
          i < j /\ ConnOrder[j] = user => ConnOrder[i] \notin gather[ws].pending
    /\ outbox' = Written(user, gather[ws].message)
    /\ gather' = [gather EXCEPT
                    ![ws].pending = @ \ {user},
                    ![ws].failed = IF transport[user] = "open" THEN @ ELSE @ \cup {user}]
    /\ UNCHANGED <<shared, pc, transport, cleanups, voiced, nmsg, ignored>>

\* One task of a gather, user.send(message_json), seen on its own: it
\* finishes, the frame written on an open connection, the exception in
\* results on a closed one (lines 87-90).  Each send is a task of its own, so
\* it finishes whichever of the others have; a send that hangs is one that
\* never takes this step.
Send(ws, user) ==
    /\ user \in gather[ws].pending
    /\ outbox' = Written(user, gather[ws].message)
    /\ gather' = [gather EXCEPT
                    ![ws].pending = @ \ {user},
                    ![ws].failed = IF transport[user] = "open" THEN @ ELSE @ \cup {user}]
    /\ UNCHANGED <<shared, pc, transport, cleanups, voiced, nmsg, ignored>>

\* -------------------------------------------------------- unregister_user
\* UnregisterDelete without the del of line 73.
UnregisterDelete_Keep(ws) ==
    /\ UNCHANGED CONNECTED_USERS
    /\ pc' = [pc EXCEPT ![ws] = "done"]
    /\ transport' = [transport EXCEPT ![ws] = "closed"]

\* Line 73, and the end of the handler.
UnregisterDelete(ws) ==
    /\ CONNECTED_USERS' = [w \in Registered \ {ws} |-> CONNECTED_USERS[w]]
    /\ Finish(ws)

\* A synthetic notification of unregister_user; it is broadcast with no
\* sender to leave out (sender_websocket = None).
Synthetic(ws, msg_type) == WithSender(Envelope(msg_type, ws, FALSE), Username(ws))

\* Lines 66-74: the screen half of the cleanup, then the removal.
UnregisterScreen(ws) ==
    IF GuildOf(ws) # NoGuild /\ Username(ws) \in SCREEN_STATE[GuildOf(ws)]
    THEN /\ SCREEN_STATE' =
              [SCREEN_STATE EXCEPT ![GuildOf(ws)] = @ \ {Username(ws)}]
         /\ gather' = [gather EXCEPT ![ws] =
                         StartGather(GuildOf(ws), Synthetic(ws, "screen_stop"), None)]
         /\ pc' = [pc EXCEPT ![ws] = "unregister_screen"]
         /\ UNCHANGED <<CONNECTED_USERS, transport>>
    ELSE /\ UnregisterDelete(ws)
         /\ gather' = [gather EXCEPT ![ws] = NoGather]
         /\ UNCHANGED SCREEN_STATE

\* The async-for ends on a closed connection (lines 123, 220-227) and finally
\* calls unregister_user: lines 52-64, and on to the screen half when the
\* name is not in the guild's voice state.
HandlerEnd(ws) ==
    /\ pc[ws] = "loop"
    /\ transport[ws] = "closed"
    /\ cleanups' = [cleanups EXCEPT ![ws] = @ + 1]
    /\ IF GuildOf(ws) # NoGuild /\ Username(ws) \in VOICE_STATE[GuildOf(ws)]
       THEN /\ VOICE_STATE' =
                 [VOICE_STATE EXCEPT ![GuildOf(ws)] = @ \ {Username(ws)}]
            /\ gather' = [gather EXCEPT ![ws] =
                            StartGather(GuildOf(ws), Synthetic(ws, "voice_leave"), None)]
            /\ pc' = [pc EXCEPT ![ws] = "unregister_voice"]
            /\ UNCHANGED <<CONNECTED_USERS, SCREEN_STATE, transport>>
       ELSE /\ UnregisterScreen(ws)
            /\ UNCHANGED VOICE_STATE
    /\ UNCHANGED <<GUILDS, MESSAGE_HISTORY, outbox, voiced, nmsg, ignored>>

\* The gather of a broadcast has all its results (lines 87-94): the caller
\* resumes, in the loop or in unregister_user.
GatherReturn(ws) ==
    /\ pc[ws] \in {"gather", "unregister_voice", "unregister_screen"}
    /\ gather[ws].pending = {}
    /\ CASE pc[ws] = "gather" ->
              /\ pc' = [pc EXCEPT ![ws] = "loop"]
              /\ gather' = [gather EXCEPT ![ws] = NoGather]
              /\ UNCHANGED <<CONNECTED_USERS, SCREEN_STATE, transport>>
         [] pc[ws] = "unregister_voice" -> UnregisterScreen(ws)
         [] pc[ws] = "unregister_screen" ->
              /\ UnregisterDelete(ws)
              /\ gather' = [gather EXCEPT ![ws] = NoGather]
              /\ UNCHANGED SCREEN_STATE
    /\ UNCHANGED <<GUILDS, MESSAGE_HISTORY, VOICE_STATE, outbox, cleanups, voiced, nmsg, ignored>>

\* ---------------------------------------------------------- specification
\* The steps of the handlers and of the peers, the sends of a gather apart.
Steps ==
    \/ \E ws \in Conns : TransportClose(ws)
    \/ \E ws \in Conns : ClosedBeforeAuth(ws)
    \/ \E ws \in Conns, first \in FirstMessages : RejectFirst(ws, first)
    \/ \E ws \in Conns, first \in FirstMessages : Auth(ws, first)
    \/ \E ws \in Conns, invite_code \in InviteCodes : CreateGuild(ws, invite_code)
    \/ \E ws \in Conns, invite_code \in InviteCodes : JoinGuild(ws, invite_code)
    \/ \E ws \in Conns, guild_id \in 1..(Len(GUILDS) + 1) : SwitchGuild(ws, guild_id)
    \/ \E ws \in Conns : SwitchVoice(ws)
    \/ \E ws \in Conns : SwitchScreen(ws)
    \/ \E ws \in Conns : Text(ws)
    \/ \E ws \in Conns : VoiceJoin(ws)
    \/ \E ws \in Conns : VoiceLeave(ws)
    \/ \E ws \in Conns : ScreenStart(ws)
    \/ \E ws \in Conns : ScreenStop(ws)
    \/ \E ws \in Conns, msg_type \in {"voice_data", "screen_frame"} : Relay(ws, msg_type)
    \/ \E ws \in Conns, data \in Inbound : Ignored(ws, data)
    \/ \E ws \in Conns : HandlerEnd(ws)
    \/ \E ws \in Conns : GatherReturn(ws)

Next ==
    \/ Steps
    \/ \E ws \in Conns : GatherSend(ws)

Spec == Init /\ [][Next]_vars

\* ------------------------------------------- the sends of a gather, apart
\* The connection whose peer has stopped reading: a send to it may hang.
Stalled == "w2"

\* The populated server, the sends of a gather taken one by one.
InitHang == Init /\ InitPopulated

NextHang ==
    \/ Steps
    \/ \E ws \in Conns, user \in Conns : Send(ws, user)

\* The event loop runs every send task that can run; only a send to the
\* stalled connection may never finish.
SpecHang ==
    /\ InitHang
    /\ [][NextHang]_vars
    /\ \A ws \in Conns, user \in Conns \ {Stalled} : WF_vars(Send(ws, user))

\* =================================================================== claims
\* The registered sessions with that display name whose guild is guild_id.
SessionsIn(guild_id, name) ==
    {ws \in Registered : Username(ws) = name /\ GuildOf(ws) = guild_id}

\* C1: every name in a guild's voice or screen presence set is the display
\* name of a registered session whose current guild is that guild.
C1_PresenceHasSession ==
    \A g \in GuildIds :
        \A name \in VOICE_STATE[g] \cup SCREEN_STATE[g] : SessionsIn(g, name) # {}

\* C2: the step that stores a text envelope of session a in guild g appends
\* it to g's history, writes no frame yet, and addresses it to exactly the
\* registered sessions other than a whose guild is g at that moment; and a
\* text frame is written to a connection only when a history holds it.
C2_TextAddressedToGuild ==
    [][ /\ \A g \in DOMAIN MESSAGE_HISTORY :
              MESSAGE_HISTORY'[g] # MESSAGE_HISTORY[g] =>
                 LET data == MESSAGE_HISTORY'[g][Len(MESSAGE_HISTORY'[g])]
                     a == data.origin
                 IN  /\ MESSAGE_HISTORY'[g] = Append(MESSAGE_HISTORY[g], data)
                     /\ data.type = "text"
                     /\ a \in Registered /\ GuildOf(a) = g
                     /\ outbox' = outbox
                     /\ gather'[a].message = data
                     /\ gather'[a].users_to_send =
                           {w \in Registered \ {a} : GuildOf(w) = g}
        /\ \A user \in Conns : \A i \in 1..Len(outbox'[user]) :
              outbox'[user][i].type = "text" =>
                 \E g \in DOMAIN MESSAGE_HISTORY' :
                    \E k \in 1..Len(MESSAGE_HISTORY'[g]) :
                        MESSAGE_HISTORY'[g][k] = outbox'[user][i]
      ]_vars

\* C2 witness: a text is being broadcast to a session of its guild while
\* another registered session, in no guild or another one, is left out.
C2_Witness ==
    \E a \in Registered, user \in Registered, other \in Registered :
        /\ pc[a] = "gather"
        /\ gather[a].message.type = "text"
        /\ user \in gather[a].users_to_send
        /\ other # a
        /\ GuildOf(other) # gather[a].guild
        /\ other \notin gather[a].users_to_send

\* A frame is the synthetic notification msg_type of the cleanup of a.
IsSynthetic(frame, msg_type, a) ==
    frame.type = msg_type /\ frame.origin = a /\ ~frame.relayed

\* C3: once the cleanup of a session a is over, a having sent voice_join in
\* guild g and no voice_leave since, every session still in g on an open
\* connection that was sent a's voice_join has been sent exactly one
\* synthetic voice_leave for a.
C3_SyntheticVoiceLeave ==
    \A a \in Conns :
        pc[a] = "done" /\ voiced[a] # NoGuild =>
            \A user \in Registered :
                ( /\ GuildOf(user) = voiced[a]
                  /\ transport[user] = "open"
                  /\ \E i \in 1..Len(outbox[user]) :
                        /\ outbox[user][i].type = "voice_join"
                        /\ outbox[user][i].origin = a )
                => Cardinality({i \in 1..Len(outbox[user]) :
                        IsSynthetic(outbox[user][i], "voice_leave", a)}) = 1

\* C4: the step that removes a session from the registry leaves its display
\* name in no voice or screen presence set of any guild, unless another
\* registered session has the same display name.
C4_NoPresenceAfterCleanup ==
    [][ \A ws \in Registered :
            ( /\ ws \notin DOMAIN CONNECTED_USERS'
              /\ \A w \in DOMAIN CONNECTED_USERS' :
                    CONNECTED_USERS'[w].username # Username(ws) )
            => \A g \in DOMAIN GUILDS' :
                  Username(ws) \notin VOICE_STATE'[g] \cup SCREEN_STATE'[g]
      ]_vars

\* A sequence holds no element twice.
NoDuplicates(s) == \A i, j \in 1..Len(s) : s[i] = s[j] => i = j

\* C5: no guild lists a name twice in members; a join_guild whose code
\* matches leaves the joiner in the members of the first matching guild, and
\* leaves members as they were when the joiner (the owner, say, or a second
\* join) was in them already.
C5_MembersUnique ==
    [][ /\ \A g \in DOMAIN GUILDS' : NoDuplicates(GUILDS'[g].members)
        /\ \A ws \in Conns, invite_code \in InviteCodes :
              JoinGuild(ws, invite_code) /\ FirstMatch(invite_code) # 0 =>
                 LET g == FirstMatch(invite_code)
                 IN  /\ Username(ws) \in Range(GUILDS'[g].members)
                     /\ Username(ws) \in Range(GUILDS[g].members) => GUILDS' = GUILDS
                     /\ \A h \in DOMAIN GUILDS : h # g => GUILDS'[h] = GUILDS[h]
      ]_vars

\* C5 witness: a session that is not the owner was told twice that it joined
\* a guild, which it was not a member of at first.
C5_Witness ==
    \E ws \in Registered, g \in GuildIds :
        /\ Len(GUILDS[g].members) = 3
        /\ GUILDS[g].members[3] = Username(ws)
        /\ Cardinality({i \in 1..Len(outbox[ws]) :
              outbox[ws][i] = WithId(Envelope("guild_joined", ws, FALSE), g)}) = 2

\* C6: the step in which the sends of a broadcast run writes the envelope
\* to every recipient on an open connection, whichever other sends fail, and
\* only closed connections are among the failures; the handler that awaits
\* the gather of its own envelope can then resume, and it goes back to its
\* loop, registered as before, and nowhere else.
C6_FailureIsolation ==
    [][ /\ \A ws \in Conns :
              gather[ws].pending # {} /\ gather'[ws].pending = {} =>
                 /\ \A user \in gather[ws].users_to_send :
                       IF transport[user] = "open"
                       THEN /\ outbox'[user] = Append(outbox[user], gather[ws].message)
                            /\ user \notin gather'[ws].failed
                       ELSE user \in gather'[ws].failed
                 /\ pc'[ws] = pc[ws]
        /\ \A ws \in Conns :
              pc[ws] = "gather" =>
                 /\ pc'[ws] \in {"gather", "loop"}
                 /\ ws \in DOMAIN CONNECTED_USERS'
                 /\ gather[ws].pending = {} => ENABLED GatherReturn(ws)
      ]_vars

\* C6 witness: a handler awaits the gather of a broadcast to two recipients
\* of which one failed and the other has the envelope.
C6_Witness ==
    \E ws \in Conns, lost \in Conns, user \in Conns :
        /\ pc[ws] = "gather"
        /\ gather[ws].pending = {}
        /\ gather[ws].users_to_send = {lost, user}
        /\ gather[ws].failed = {lost}
        /\ user # lost
        /\ outbox[user][Len(outbox[user])] = gather[ws].message

\* The snapshot frames among the frames written to ws, in order.
IsSnapshot(frame) ==
    frame.type \in {"message_history", "voice_state", "screen_state"}
Snapshots(ws) == SelectSeq(outbox[ws], IsSnapshot)
SnapshotOrder == <<"message_history", "voice_state", "screen_state">>

\* The snapshot frames written to ws come in rounds of message_history,
\* voice_state, screen_state, whatever other handlers write in between.
InSnapshotOrder(ws) ==
    \A i \in 1..Len(Snapshots(ws)) :
        Snapshots(ws)[i].type = SnapshotOrder[((i - 1) % 3) + 1]

\* C7 as claimed: the snapshots come in that order, and every switch_guild
\* that passed its test has all three written by the time its handler is
\* back in the loop, one by the time it is about to send the voice state
\* and two by the time it is about to send the screen state.
C7_ThreeSnapshots ==
    \A ws \in Conns :
        /\ InSnapshotOrder(ws)
        /\ Len(Snapshots(ws)) % 3 =
              CASE pc[ws] = "switch_voice" -> 1
                [] pc[ws] = "switch_screen" -> 2
                [] OTHER -> 0

\* C7, amended: the snapshots come in that order, and the round of a
\* switch_guild is complete by the time its handler is back in the loop
\* unless the connection has closed: the send that raises ends the round.
C7_SnapshotOrder ==
    \A ws \in Conns :
        /\ InSnapshotOrder(ws)
        /\ pc[ws] = "switch_voice" => Len(Snapshots(ws)) % 3 = 1
        /\ pc[ws] = "switch_screen" => Len(Snapshots(ws)) % 3 = 2
        /\ pc[ws] \notin {"switch_voice", "switch_screen"} /\ transport[ws] = "open"
              => Len(Snapshots(ws)) % 3 = 0

\* C7 witness: a switch_guild is over, its three snapshots written, and a
\* frame of another handler's broadcast lies between them.
C7_Witness ==
    \E ws \in Registered :
        /\ pc[ws] = "loop"
        /\ Len(Snapshots(ws)) = 3
        /\ \E i, j, k \in 1..Len(outbox[ws]) :
              /\ i < j /\ j < k
              /\ outbox[ws][i].type = "message_history"
              /\ outbox[ws][j].origin # ws
              /\ outbox[ws][k].type = "screen_state"

\* C8: a join_guild whose invite code matches no guild changes no session,
\* guild, history or presence set and starts no broadcast; it writes the
\* error envelope to the caller, when its connection is open, and nothing to
\* anybody else.
C8_InvalidInvite ==
    [][ \A ws \in Conns, invite_code \in InviteCodes :
            JoinGuild(ws, invite_code) /\ Matching(invite_code) = {} =>
               /\ UNCHANGED <<shared, gather, pc>>
               /\ \A user \in Conns \ {ws} : outbox'[user] = outbox[user]
               /\ outbox'[ws] = IF transport[ws] = "open"
                                THEN Append(outbox[ws], InvalidInviteCode(ws))
                                ELSE outbox[ws]
      ]_vars

\* C8 witness: a session was sent the error envelope while a guild and
\* another session exist.
C8_Witness ==
    \E ws \in Registered, other \in Registered :
        /\ other # ws
        /\ GuildIds # {}
        /\ Len(outbox[ws]) > 0
        /\ outbox[ws][Len(outbox[ws])] = InvalidInviteCode(ws)

\* C9: every session in the registry has a display name, that is, no
\* connection is registered on an auth envelope that carries none.
C9_AuthNeedsDisplayName ==
    \A ws \in Registered : Username(ws) # None

\* The synthetic frames of type msg_type that user was sent for a.
SyntheticCount(user, msg_type, a) ==
    Cardinality({i \in 1..Len(outbox[user]) :
                    IsSynthetic(outbox[user][i], msg_type, a)})

\* What C10 says of a state: unregister_user has run once for a handler that
\* is in its cleanup or done and not at all for any other, a handler that is
\* done has no session, and nobody was sent two synthetic voice_leave or two
\* synthetic screen_stop for one session.
CleanupOnce ==
    \A ws \in Conns :
        /\ cleanups[ws] =
              IF pc[ws] \in {"unregister_voice", "unregister_screen", "done"}
              THEN 1 ELSE 0
        /\ pc[ws] = "done" => ws \notin Registered
        /\ \A user \in Conns, msg_type \in {"voice_leave", "screen_stop"} :
              SyntheticCount(user, msg_type, ws) <= 1

\* C10: CleanupOnce holds throughout; a session leaves the registry in the
\* step that ends its handler and in no other, and a handler that is done
\* stays done; and the cleanup of a connection that has no session changes
\* no session, guild, history or presence set and sends nothing.
C10_CleanupOnce ==
    [][ /\ CleanupOnce'
        /\ \A ws \in Conns :
              /\ ws \in Registered /\ ws \notin DOMAIN CONNECTED_USERS'
                    => pc[ws] # "done" /\ pc'[ws] = "done"
              /\ pc[ws] = "done" => pc'[ws] = "done"
              /\ cleanups'[ws] # cleanups[ws] /\ ws \notin Registered
                    => UNCHANGED <<shared, outbox, gather>>
      ]_vars

\* C10 witness: a session is gone whose cleanup had somebody sent both a
\* synthetic voice_leave and a synthetic screen_stop, and a connection that
\* never had a session is done too.
C10_Witness ==
    \E ws \in Conns, user \in Registered, never \in Conns :
        /\ pc[ws] = "done"
        /\ SyntheticCount(user, "voice_leave", ws) = 1
        /\ SyntheticCount(user, "screen_stop", ws) = 1
        /\ never # ws
        /\ pc[never] = "done"
        /\ outbox[never] = <<>>

\* C11: the step in which the loop of a session drops an envelope (text that
\* is no JSON, an unknown type, a create_guild, join_guild or switch_guild
\* without its field) changes no session, guild, history or presence set,
\* writes no frame, starts no broadcast and leaves the connection and the
\* handler as they were, in its loop; and a session that had an envelope
\* dropped and is in its loop can have its next envelope processed.
C11_MalformedIgnored ==
    [][ \A ws \in Conns :
          /\ ignored'[ws] # ignored[ws] =>
                /\ UNCHANGED <<shared, outbox, gather, pc, transport, cleanups>>
                /\ ws \in Registered
                /\ pc'[ws] = "loop"
          /\ ignored[ws] > 0 /\ pc[ws] = "loop" /\ nmsg < MaxMsgs =>
                ENABLED Text(ws)
      ]_vars

\* C11 witness: a session in a guild had its first envelope dropped, and
\* the text it sent next is stored and was written to another session.
C11_Witness ==
    \E ws \in Registered, user \in Registered :
        /\ ignored[ws] = 1
        /\ GuildOf(ws) # NoGuild
        /\ transport[ws] = "open"
        /\ user # ws
        /\ \E k \in 1..Len(MESSAGE_HISTORY[GuildOf(ws)]) :
              /\ MESSAGE_HISTORY[GuildOf(ws)][k].origin = ws
              /\ MESSAGE_HISTORY[GuildOf(ws)][k].id = 2
              /\ \E i \in 1..Len(outbox[user]) :
                    outbox[user][i] = MESSAGE_HISTORY[GuildOf(ws)][k]

\* C12: the guild of a session changes only in a step of its own loop that
\* processes an envelope, to a guild that exists and lists the session's
\* name in members, with the history snapshot written to it when its
\* connection is open, and no other session's guild changes in that step;
\* create_guild and join_guild change no session; a switch_guild that fails
\* the test changes no session, guild, history or presence set and nobody's
\* frames, and leaves the handler in its loop.
C12_GuildChangesBySwitch ==
    [][ /\ \A ws \in Registered :
              ws \in DOMAIN CONNECTED_USERS'
              /\ CONNECTED_USERS'[ws].guild # CONNECTED_USERS[ws].guild =>
                 LET guild_id == CONNECTED_USERS'[ws].guild
                 IN  /\ pc[ws] = "loop" /\ nmsg' = nmsg + 1
                     /\ guild_id \in GuildIds
                     /\ Username(ws) \in Range(GUILDS[guild_id].members)
                     /\ SwitchGuild(ws, guild_id)
                     /\ transport[ws] = "open" =>
                           outbox'[ws][Len(outbox'[ws])].type = "message_history"
                     /\ \A w \in Registered \ {ws} :
                           CONNECTED_USERS'[w] = CONNECTED_USERS[w]
        /\ \A ws \in Conns, invite_code \in InviteCodes :
              CreateGuild(ws, invite_code) \/ JoinGuild(ws, invite_code) =>
                 CONNECTED_USERS' = CONNECTED_USERS
        /\ \A ws \in Conns, guild_id \in 1..(Len(GUILDS) + 1) :
              SwitchGuild(ws, guild_id)
              /\ ~(guild_id \in GuildIds
                    /\ Username(ws) \in Range(GUILDS[guild_id].members)) =>
                 UNCHANGED <<shared, outbox, gather, pc, transport>>
      ]_vars

\* C12 witness: a session created a guild, stayed where it was, and is in
\* the new guild after the switch_guild that followed.
C12_Witness ==
    \E ws \in Registered :
        /\ Len(outbox[ws]) >= 2
        /\ \E i \in 1..(Len(outbox[ws]) - 1) :
              /\ outbox[ws][i].type = "guild_created"
              /\ outbox[ws][i + 1].type = "message_history"
              /\ GuildOf(ws) = outbox[ws][i].id
              /\ GUILDS[GuildOf(ws)].owner = Username(ws)

\* s is the beginning of t.
IsPrefix(s, t) == Len(s) <= Len(t) /\ \A i \in 1..Len(s) : s[i] = t[i]

\* At most one element is in one of the two sets and not in the other.
OneApart(a, b) == Cardinality((a \ b) \cup (b \ a)) <= 1

\* The sessions whose voice_join (screen_start) is being broadcast.
InFlight(msg_type) ==
    {ws \in Registered : pc[ws] = "gather" /\ gather[ws].message.type = msg_type}

\* a and b have different names, and every other connection has a session
\* under a third name or has not spoken yet (a session that shares a name
\* may remove it: that is not an update that got lost).
OnlyBearers(a, b) ==
    /\ Username(a) # Username(b)
    /\ \A w \in Conns \ {a, b} :
          \/ pc[w] = "connecting"
          \/ w \in Registered /\ Username(w) \notin {Username(a), Username(b)}

\* C13: no step loses an update of another handler.  A step changes one
\* name at most in the voice and in the screen set of a guild, members and
\* histories only grow at the end, and a voice_join (screen_start) step adds
\* its name to what the set held; so while the voice_join (screen_start)
\* envelopes of two sessions of one guild are both being broadcast, both
\* names are in the set.
C13_NoLostUpdate ==
    [][ /\ \A g \in GuildIds :
              /\ OneApart(VOICE_STATE[g], VOICE_STATE'[g])
              /\ OneApart(SCREEN_STATE[g], SCREEN_STATE'[g])
              /\ IsPrefix(GUILDS[g].members, GUILDS'[g].members)
              /\ IsPrefix(MESSAGE_HISTORY[g], MESSAGE_HISTORY'[g])
        /\ \A ws \in Registered :
              /\ VoiceJoin(ws) /\ GuildOf(ws) # NoGuild =>
                    VOICE_STATE'[GuildOf(ws)] =
                        VOICE_STATE[GuildOf(ws)] \cup {Username(ws)}
              /\ ScreenStart(ws) /\ GuildOf(ws) # NoGuild =>
                    SCREEN_STATE'[GuildOf(ws)] =
                        SCREEN_STATE[GuildOf(ws)] \cup {Username(ws)}
        /\ \A a \in InFlight("voice_join")', b \in InFlight("voice_join")' :
              gather'[a].guild = gather'[b].guild /\ OnlyBearers(a, b)' =>
                 {CONNECTED_USERS'[a].username, CONNECTED_USERS'[b].username}
                     \subseteq VOICE_STATE'[gather'[a].guild]
        /\ \A a \in InFlight("screen_start")', b \in InFlight("screen_start")' :
              gather'[a].guild = gather'[b].guild /\ OnlyBearers(a, b)' =>
                 {CONNECTED_USERS'[a].username, CONNECTED_USERS'[b].username}
                     \subseteq SCREEN_STATE'[gather'[a].guild]
      ]_vars

\* C13 witness: the voice_join envelopes of two sessions of one guild with
\* different names are being broadcast at the same time.
C13_Witness ==
    \E a \in InFlight("voice_join"), b \in InFlight("voice_join") :
        /\ OnlyBearers(a, b)
        /\ gather[a].guild = gather[b].guild
        /\ VOICE_STATE[gather[a].guild] = {Username(a), Username(b)}

\* C14: a send of a broadcast to a connection that is not the stalled one
\* finishes, whatever becomes of the send to the stalled one: whenever the
\* send to user is pending in the gather of ws, it is pending no more later
\* on, the envelope written to user if its connection is open.
C14_HungSendDelaysNobody ==
    \A ws \in Conns, user \in Conns \ {Stalled} :
        (user \in gather[ws].pending) ~> (user \notin gather[ws].pending)

\* C14 witness: the handler of ws awaits a gather whose send to the stalled
\* connection is still pending while the other recipient has the envelope.
C14_Witness ==
    \E ws \in Conns, user \in Conns \ {Stalled} :
        /\ pc[ws] = "gather"
        /\ gather[ws].users_to_send = {Stalled, user}
        /\ gather[ws].pending = {Stalled}
        /\ gather[ws].failed = {}
        /\ Len(outbox[user]) > 0
        /\ outbox[user][Len(outbox[user])] = gather[ws].message

\* C15 as claimed: while the cleanup of a session awaits the broadcast of a
\* synthetic notification, the session is still registered, the broadcast
\* is that of its guild, and the session itself is not among the recipients
\* the broadcast resolved.
C15_SyntheticToOthers ==
    \A ws \in Conns :
        pc[ws] \in {"unregister_voice", "unregister_screen"} =>
            /\ ws \in Registered
            /\ gather[ws].guild = GuildOf(ws)
            /\ gather[ws].message.type =
                  (IF pc[ws] = "unregister_voice" THEN "voice_leave" ELSE "screen_stop")
            /\ ws \notin gather[ws].users_to_send

\* The text frames of origin a among the frames of s, in order.
TextsOf(s, a) ==
    SelectSeq(s, LAMBDA frame : frame.type = "text" /\ frame.origin = a)

\* The ids of s grow.
InOrder(s) == \A i, j \in 1..Len(s) : i < j => s[i].id < s[j].id

\* C16: while the handler of a session awaits the broadcast of an envelope
\* it takes no other: the broadcast stays the same, the session keeps its
\* guild and no history gets an envelope of that session; and the texts of
\* one session are in a history in the order in which they were taken, and
\* were written to every connection in that order.
C16_OneAtATime ==
    [][ /\ \A ws \in Conns :
              pc[ws] = "gather" =>
                 /\ pc'[ws] \in {"gather", "loop"}
                 /\ gather'[ws].message = gather[ws].message
                       \/ (pc'[ws] = "loop" /\ gather[ws].pending = {})
                 /\ CONNECTED_USERS'[ws] = CONNECTED_USERS[ws]
                 /\ \A g \in GuildIds :
                       TextsOf(MESSAGE_HISTORY'[g], ws) = TextsOf(MESSAGE_HISTORY[g], ws)
        /\ \A a \in Conns :
              /\ \A g \in DOMAIN MESSAGE_HISTORY' :
                    InOrder(TextsOf(MESSAGE_HISTORY'[g], a))
              /\ \A user \in Conns : InOrder(TextsOf(outbox'[user], a))
      ]_vars

\* C16 witness: two texts of one session are in the history of its guild,
\* and another session was sent both, the first one first.
C16_Witness ==
    \E a \in Registered, user \in Conns :
        /\ user # a
        /\ GuildOf(a) # NoGuild
        /\ Len(TextsOf(MESSAGE_HISTORY[GuildOf(a)], a)) = 2
        /\ TextsOf(outbox[user], a) = TextsOf(MESSAGE_HISTORY[GuildOf(a)], a)

\* C17: after every step the members of every guild hold its owner; every
\* guild there was is still there, under its id and with its owner, and its
\* members hold every name they held.
C17_MembersOnlyGrow ==
    [][ /\ \A g \in DOMAIN GUILDS' :
              GUILDS'[g].owner \in Range(GUILDS'[g].members)
        /\ \A g \in DOMAIN GUILDS :
              /\ g \in DOMAIN GUILDS'
              /\ GUILDS'[g].id = GUILDS[g].id
              /\ GUILDS'[g].owner = GUILDS[g].owner
              /\ Range(GUILDS[g].members) \subseteq Range(GUILDS'[g].members)
      ]_vars

\* C17 witness: one session was told it created a guild and another that it
\* joined it; the guild lists its owner, then the joiner.
C17_Witness ==
    \E g \in GuildIds, a \in Registered, b \in Registered :
        /\ GUILDS[g].members = <<Username(a), Username(b)>>
        /\ GUILDS[g].owner = Username(a)
        /\ Username(a) # Username(b)
        /\ \E i \in 1..Len(outbox[a]) :
              outbox[a][i] = WithId(Envelope("guild_created", a, FALSE), g)
        /\ \E i \in 1..Len(outbox[b]) :
              outbox[b][i] = WithId(Envelope("guild_joined", b, FALSE), g)

\* The message_history frames written to ws, and the last of them: the
\* snapshot of the last switch_guild of ws that passed its test.
Histories(ws) ==
    SelectSeq(outbox[ws], LAMBDA frame : frame.type = "message_history")
LastHistory(ws) == Histories(ws)[Len(Histories(ws))]

\* The times the broadcast of m wrote m to ws.
LiveCopies(ws, m) == Cardinality({i \in 1..Len(outbox[ws]) : outbox[ws][i] = m})

\* The times m is in the last snapshot of ws (0 or 1).
SnapshotCopies(ws, m) ==
    IF m \in Range(LastHistory(ws).messages) THEN 1 ELSE 0

\* A send of m to ws is still to run.
InFlightTo(ws, m) ==
    \E a \in Conns : gather[a].message = m /\ ws \in gather[a].pending

\* C18 as claimed: a session b on an open connection that switched into its
\* guild was given every text another session has in the guild's history
\* (and whose broadcast has run) once: in the snapshot of its switch or by
\* the broadcast, not both and not neither.
C18_ExactlyOnce ==
    \A b \in Registered :
        transport[b] = "open" /\ GuildOf(b) # NoGuild /\ Len(Histories(b)) > 0 =>
            \A k \in 1..Len(MESSAGE_HISTORY[GuildOf(b)]) :
                LET m == MESSAGE_HISTORY[GuildOf(b)][k]
                IN  m.origin # b /\ ~InFlightTo(b, m) =>
                        SnapshotCopies(b, m) + LiveCopies(b, m) = 1

\* C19 as claimed: a session on an open connection that sent voice_join in
\* the guild it is in, has sent no voice_leave since and has not switched
\* guild has its name in the voice set of that guild, whatever the other
\* sessions do, those of the same name included.
C19_VoicePresenceKept ==
    \A a \in Registered :
        ( /\ voiced[a] # NoGuild
          /\ GuildOf(a) = voiced[a]
          /\ Len(Histories(a)) = 0
          /\ transport[a] = "open" )
        => Username(a) \in VOICE_STATE[voiced[a]]

\* C20: the guild of every registered session that is in a guild exists,
\* lists the session's name in members, and has a history, a voice set and
\* a screen set.
C20_GuildOfSessionExists ==
    \A ws \in Registered :
        GuildOf(ws) # NoGuild =>
            /\ GuildOf(ws) \in DOMAIN GUILDS
            /\ GUILDS[GuildOf(ws)].id = GuildOf(ws)
            /\ Username(ws) \in Range(GUILDS[GuildOf(ws)].members)
            /\ GuildOf(ws) \in DOMAIN MESSAGE_HISTORY
            /\ GuildOf(ws) \in DOMAIN VOICE_STATE
            /\ GuildOf(ws) \in DOMAIN SCREEN_STATE

\* C20 witness: a session switched into a guild it does not own and has a
\* text in the history of that guild.
C20_Witness ==
    \E ws \in Registered :
        /\ GuildOf(ws) # NoGuild
        /\ Len(Histories(ws)) = 1
        /\ GUILDS[GuildOf(ws)].owner # Username(ws)
        /\ Len(TextsOf(MESSAGE_HISTORY[GuildOf(ws)], ws)) = 1

====
